---- MODULE Spec2Model ----
(***************************************************************************)
(* Model of the fasthttp download engine (fasthttp.go): Get/Save probe the *)
(* resource with a HEAD request, download() plans byte ranges and runs one *)
(* getRange goroutine per range, a collector goroutine stores what the     *)
(* fetchers send on the unbuffered errors channel, and download returns    *)
(* the shared err variable after wg.Wait().                                *)
(***************************************************************************)
EXTENDS Integers, Sequences, FiniteSets, TLC

\* ---- bounds of the model ----
MaxThreads == 3
MaxLen == 3
MaxPlanThreads == 5
MaxPlanLen == 12
MaxSaveThreads == 2
MaxSaveLen == 2
MaxRoundLen == 5
MaxBufLen == 2
MaxOff == 3

\* ---- program constants ----
PayloadSize == 256
BufferCap == 2147483647

VARIABLES
    op,         \* "Get" or "Save": the public operation that was called
    threads,    \* the threads argument of Get/Save/download
    resLen,     \* length of the resource the server holds
    head,       \* the HEAD response getContentLength saw
    pc,         \* position of the calling goroutine
    length,     \* result of getContentLength, argument of download
    nthreads,   \* download's threads after the "just use one" adjustment
    blocksize,  \* download local
    remainder,  \* download local
    offset,     \* download local
    rng,        \* the getRange invocations, in dispatch order
    wg,         \* sync.WaitGroup counter
    coll,       \* the error-listening goroutine: position and received value
    err,        \* download's shared err variable
    ret,        \* error returned by Get/Save/download
    sink,       \* content of the io.WriterAt (buffer or file)
    calls,      \* number of earlier Save calls to the same path
    first,      \* what the first of two Save calls left behind
    wcall       \* the arguments of a direct bufferWriterAt.WriteAt call

vars == <<op, threads, resLen, head, pc, length, nthreads, blocksize,
          remainder, offset, rng, wg, coll, err, ret, sink, calls, first, wcall>>

\* ---- error values ----
NoErr == <<>>
Unset == <<"unset">>
HeadErr == <<"head">>
CreateErr == <<"create">>
DoErr == <<"do">>
ZeroThreadsErr == <<"cannot download using 0 threads">>
BadCode(status) == <<"bad response code", status>>
BadRangeCode(status, start, end) == <<"bad response code", status, start, end>>

\* ---- the server ----
Data(i) == i + 1
HeadStatuses == {200, 404}
GetStatuses == {200, 206}
NoHead == [err |-> FALSE, status |-> 0, acceptRanges |-> FALSE, contentLength |-> -1]
HeadResponses ==
    {[err |-> TRUE, status |-> 0, acceptRanges |-> FALSE, contentLength |-> -1]}
    \cup [err : {FALSE}, status : HeadStatuses, acceptRanges : BOOLEAN,
          contentLength : {-1, resLen}]
Min(a, b) == IF a < b THEN a ELSE b

\* getContentLength without the Accept-Ranges test
getContentLengthAnyServer(h) ==
    IF h.err THEN [length |-> 0, err |-> HeadErr]
    ELSE IF h.status # 200 THEN [length |-> 0, err |-> BadCode(h.status)]
    ELSE IF h.contentLength < 0 THEN [length |-> 0, err |-> NoErr]
    ELSE [length |-> h.contentLength, err |-> NoErr]

\* getContentLength without the status test
getContentLengthAnyStatus(h) ==
    IF h.err THEN [length |-> 0, err |-> HeadErr]
    ELSE IF ~h.acceptRanges THEN [length |-> 0, err |-> NoErr]
    ELSE IF h.contentLength < 0 THEN [length |-> 0, err |-> NoErr]
    ELSE [length |-> h.contentLength, err |-> NoErr]

\* ---- getContentLength ----
getContentLength(h) ==
    IF h.err THEN [length |-> 0, err |-> HeadErr]
    ELSE IF h.status # 200 THEN [length |-> 0, err |-> BadCode(h.status)]
    ELSE IF ~h.acceptRanges THEN [length |-> 0, err |-> NoErr]
    ELSE IF h.contentLength < 0 THEN [length |-> 0, err |-> NoErr]
    ELSE [length |-> h.contentLength, err |-> NoErr]

\* ---- the sinks ----
Zeros(n) == [k \in 1..n |-> 0]
Stale == [k \in 1..(MaxLen + 1) |-> 9]
Overlay(buf, p, off) ==
    [k \in 1..Len(buf) |-> IF k > off /\ k <= off + Len(p) THEN p[k - off] ELSE buf[k]]
Reslice(buf, n) == [k \in 1..n |-> IF k <= Len(buf) THEN buf[k] ELSE 0]
BufferCapacity == IF length = 0 THEN BufferCap ELSE length
BufferPanics(buf, p, off) ==
    \/ off < 0
    \/ Len(p) + off > Len(buf) /\ Len(p) + off > BufferCapacity
BufferWriteAt(buf, p, off) ==
    Overlay(IF off < 0 \/ Len(p) + off > Len(buf) THEN Reslice(buf, Len(p) + off) ELSE buf,
            p, off)
FileWriteAt(file, p, off) ==
    IF Len(p) = 0 THEN file
    ELSE Overlay(IF Len(p) + off > Len(file) THEN Reslice(file, Len(p) + off) ELSE file,
                 p, off)
Payload(from, n) == [k \in 1..n |-> Data(from + k - 1)]

\* ---- download's arithmetic ----
\* variants of the arithmetic: one thread only for an unknown length, a block
\* size rounded up, a forgotten remainder, an exclusive range end
CollapseUnknownOnly(t, len) == IF len = 0 THEN 1 ELSE t
BlockSizeRoundedUp(len, t) == (len + t - 1) \div t
RemainderDropped(len, t) == 0
RangeEndExclusive(start, bs, rem) == start + bs + rem
Collapse(t, len) == IF len < t THEN 1 ELSE t
BlockSize(len, t) == len \div t
Remainder(len, t) == len % t
RangeEnd(start, bs, rem) == start + bs + rem - 1
RangeHeader(start, end) == IF end >= start THEN <<start, end>> ELSE <<>>
NoRange == <<>>
NewRange(start, end) ==
    [start |-> start, end |-> end, pc |-> "req", hdr |-> NoRange, cur |-> start,
     left |-> 0, res |-> NoErr, rdErr |-> FALSE, status |-> 0, wrErr |-> FALSE]

NoFirst == [sink |-> <<>>, ok |-> FALSE]
NoCall == [made |-> FALSE, p |-> <<>>, off |-> 0, old |-> <<>>]

Init ==
    /\ op \in {"Get", "Save"}
    /\ threads \in 0..MaxThreads
    /\ resLen \in 0..MaxLen
    /\ head = NoHead
    /\ pc = "start"
    /\ length = 0
    /\ nthreads = 0
    /\ blocksize = 0
    /\ remainder = 0
    /\ offset = 0
    /\ rng = <<>>
    /\ wg = 0
    /\ coll = [pc |-> "none", e |-> NoErr]
    /\ err = NoErr
    /\ ret = Unset
    /\ sink = IF op = "Save" THEN Stale ELSE <<>>
    /\ calls = 0
    /\ first = NoFirst
    /\ wcall = NoCall

\* Get/Save: length, err := getContentLength(u); if err != nil { return err }
Probe ==
    /\ pc = "start"
    /\ \E h \in HeadResponses :
        /\ head' = h
        /\ LET r == getContentLength(h) IN
            IF r.err # NoErr
            THEN /\ ret' = r.err
                 /\ pc' = "returned"
                 /\ UNCHANGED length
            ELSE /\ length' = r.length
                 /\ pc' = "open"
                 /\ UNCHANGED ret
    /\ UNCHANGED <<calls, first, wcall, op, threads, resLen, nthreads, blocksize, remainder, offset,
                   rng, wg, coll, err, sink>>

\* a Save that opens the file without truncating it
OpenSinkKeepsContent ==
    /\ pc = "open"
    /\ \/ /\ op = "Get"
          /\ sink' = Zeros(length)
          /\ pc' = "download"
          /\ UNCHANGED ret
       \/ /\ op = "Save"
          /\ sink' = sink
          /\ pc' = "download"
          /\ UNCHANGED ret
       \/ /\ op = "Save"
          /\ ret' = CreateErr
          /\ pc' = "returned"
          /\ UNCHANGED sink
    /\ UNCHANGED <<calls, first, wcall, op, threads, resLen, head, length, nthreads,
                   blocksize, remainder, offset, rng, wg, coll, err>>

\* Get: make the buffer; Save: os.MkdirAll, os.Create (either may fail)
OpenSink ==
    /\ pc = "open"
    /\ \/ /\ op = "Get"
          /\ sink' = Zeros(length)
          /\ pc' = "download"
          /\ UNCHANGED ret
       \/ /\ op = "Save"
          /\ sink' = <<>>
          /\ pc' = "download"
          /\ UNCHANGED ret
       \/ /\ op = "Save"
          /\ ret' = CreateErr
          /\ pc' = "returned"
          /\ UNCHANGED sink
    /\ UNCHANGED <<calls, first, wcall, op, threads, resLen, head, length, nthreads, blocksize,
                   remainder, offset, rng, wg, coll, err>>

\* a download that takes zero threads to mean one
DownloadEnterZeroAsOne ==
    /\ pc = "download"
    /\ LET t == IF threads = 0 THEN 1 ELSE Collapse(threads, length) IN
        IF t = 1
        THEN /\ nthreads' = 1
             /\ rng' = <<NewRange(0, -1)>>
             /\ pc' = "single"
             /\ UNCHANGED <<ret, blocksize, remainder, offset>>
        ELSE /\ nthreads' = t
             /\ blocksize' = BlockSize(length, t)
             /\ remainder' = Remainder(length, t)
             /\ offset' = 0
             /\ pc' = "loop"
             /\ UNCHANGED <<ret, rng>>
    /\ UNCHANGED <<calls, first, wcall, op, threads, resLen, head, length, wg, coll,
                   err, sink>>

\* download, up to the spawning loop
DownloadEnter ==
    /\ pc = "download"
    /\ IF threads = 0
       THEN /\ ret' = ZeroThreadsErr
            /\ pc' = "returned"
            /\ UNCHANGED <<nthreads, blocksize, remainder, offset, rng>>
       ELSE LET t == Collapse(threads, length) IN
            IF t = 1
            THEN /\ nthreads' = 1
                 /\ rng' = <<NewRange(0, -1)>>
                 /\ pc' = "single"
                 /\ UNCHANGED <<ret, blocksize, remainder, offset>>
            ELSE /\ nthreads' = t
                 /\ blocksize' = BlockSize(length, t)
                 /\ remainder' = Remainder(length, t)
                 /\ offset' = 0
                 /\ pc' = "loop"
                 /\ UNCHANGED <<ret, rng>>
    /\ UNCHANGED <<calls, first, wcall, op, threads, resLen, head, length, wg, coll, err, sink>>

\* one iteration of "for offset < length": wg.Add(1) and go func()
Dispatch ==
    /\ pc = "loop"
    /\ offset < length
    /\ LET start == offset
           end == RangeEnd(start, blocksize, remainder) IN
        /\ wg' = wg + 1
        /\ rng' = Append(rng, NewRange(start, end))
        /\ offset' = end + 1
        /\ remainder' = 0
    /\ UNCHANGED <<calls, first, wcall, op, threads, resLen, head, pc, length, nthreads, blocksize,
                   coll, err, ret, sink>>

\* loop exit: var err error; go func() { for e := range errors ... }
SpawnCollector ==
    /\ pc = "loop"
    /\ ~(offset < length)
    /\ err' = NoErr
    /\ coll' = [pc |-> "recv", e |-> NoErr]
    /\ pc' = "wait"
    /\ UNCHANGED <<calls, first, wcall, op, threads, resLen, head, length, nthreads, blocksize,
                   remainder, offset, rng, wg, ret, sink>>

\* a wait that returns while one downloader is still registered
WaitReturnsEarly == wg <= 1

\* wg.Wait() returns when the counter is zero
WaitReturns == wg = 0

\* wg.Wait(); return err
Return ==
    /\ pc = "wait"
    /\ WaitReturns
    /\ ret' = err
    /\ pc' = "returned"
    /\ UNCHANGED <<calls, first, wcall, op, threads, resLen, head, length, nthreads, blocksize,
                   remainder, offset, rng, wg, coll, err, sink>>

\* threads == 1: return getRange(f, u, 0, -1)
SingleReturn ==
    /\ pc = "single"
    /\ rng[1].pc = "ret"
    /\ ret' = rng[1].res
    /\ rng' = [rng EXCEPT ![1].pc = "done"]
    /\ pc' = "returned"
    /\ UNCHANGED <<calls, first, wcall, op, threads, resLen, head, length, nthreads, blocksize,
                   remainder, offset, wg, coll, err, sink>>

\* ---- what the network and the disk may do to a getRange call ----
\* statuses: the answers to a GET; do: may client.Do fail; rd: may a body read
\* fail; wr: may a WriteAt fail; compliant: the server answers a plain GET
\* with 200 and a range GET with 206
SpecEnv == [statuses |-> GetStatuses, do |-> BOOLEAN, rd |-> BOOLEAN,
            wr |-> {FALSE}, compliant |-> FALSE]
FaultEnv == [statuses |-> GetStatuses \cup {404}, do |-> BOOLEAN, rd |-> BOOLEAN,
             wr |-> BOOLEAN, compliant |-> FALSE]
CompliantEnv == [statuses |-> GetStatuses, do |-> {FALSE}, rd |-> {FALSE},
                 wr |-> {FALSE}, compliant |-> TRUE]

\* a status test that takes any of the two success codes for either request
StatusOKEither(r, s) == s \in {200, 206}

\* getRange's "Is the response good?"
StatusOK(r, s) == IF r.end < r.start THEN s = 200 ELSE s = 206

\* getRange: build the request, client.Do, check the status
RequestIn(i, env) ==
    /\ i \in 1..Len(rng)
    /\ rng[i].pc = "req"
    /\ LET r == rng[i]
           h == RangeHeader(r.start, r.end) IN
        \/ /\ TRUE \in env.do
           /\ rng' = [rng EXCEPT ![i] = [r EXCEPT !.hdr = h, !.res = DoErr, !.pc = "ret"]]
        \/ \E s \in env.statuses :
            /\ env.compliant => s = (IF r.end < r.start THEN 200 ELSE 206)
            /\ IF ~StatusOK(r, s)
               THEN rng' = [rng EXCEPT ![i] =
                        [r EXCEPT !.hdr = h, !.status = s, !.pc = "ret",
                                  !.res = IF r.end < r.start THEN BadCode(s)
                                          ELSE BadRangeCode(s, r.start, r.end)]]
               ELSE rng' = [rng EXCEPT ![i] =
                        [r EXCEPT !.hdr = h, !.status = s, !.pc = "read",
                                  !.left = IF r.end < r.start THEN resLen
                                           ELSE r.end - r.start + 1]]
    /\ UNCHANGED <<calls, first, wcall, op, threads, resLen, head, pc, length, nthreads,
                   blocksize, remainder, offset, wg, coll, err, ret, sink>>

Request(i) == RequestIn(i, SpecEnv)

\* the outcomes of resp.Body.Read(payload): <<bytes, eof, read failed>>
ReadOutcomes(left) ==
    {<<n, FALSE, FALSE>> : n \in 1..Min(PayloadSize, left)}
    \cup (IF left >= 1 /\ left <= PayloadSize THEN {<<left, TRUE, FALSE>>} ELSE {})
    \cup (IF left = 0 THEN {<<0, TRUE, FALSE>>} ELSE {})
    \cup {<<0, TRUE, TRUE>>}

\* the offset in the resource of the next byte the body delivers: a plain GET
\* delivers the resource from 0, a range GET the bytes start..end
BodyPos(r) == (IF r.end < r.start THEN resLen ELSE r.end + 1) - r.left

\* a transfer loop that writes at the offset within the body, and one that
\* never updates its position
WriteOffsetInBody(r) == r.cur - r.start
AdvanceNever(cur, n) == cur

\* f.WriteAt(payload[0:bytes], start) and start += int64(bytes)
WriteOffset(r) == r.cur
Advance(cur, n) == cur + n

\* one iteration of getRange's transfer loop: Read, WriteAt, start += bytes;
\* WriteAt's result is dropped and, whatever ends the loop, getRange returns nil
ReadWriteIn(i, env) ==
    /\ i \in 1..Len(rng)
    /\ rng[i].pc = "read"
    /\ LET r == rng[i] IN
       \E o \in ReadOutcomes(r.left), wfail \in env.wr :
        LET n == o[1]
            p == Payload(BodyPos(r), n)
            off == WriteOffset(r) IN
        /\ o[3] \in env.rd
        /\ wfail => op = "Save" /\ n > 0
        /\ IF op = "Get" /\ BufferPanics(sink, p, off)
           THEN /\ pc' = "panic"
                /\ UNCHANGED <<rng, sink>>
           ELSE /\ rng' = [rng EXCEPT ![i] =
                           [r EXCEPT !.cur = Advance(r.cur, n), !.left = r.left - n,
                                     !.rdErr = o[3], !.wrErr = r.wrErr \/ wfail,
                                     !.res = NoErr,
                                     !.pc = IF o[2] THEN "ret" ELSE "read"]]
                /\ sink' = IF wfail THEN sink
                           ELSE IF op = "Get" THEN BufferWriteAt(sink, p, off)
                           ELSE FileWriteAt(sink, p, off)
                /\ UNCHANGED pc
    /\ UNCHANGED <<calls, first, wcall, op, threads, resLen, head, length, nthreads,
                   blocksize, remainder, offset, wg, coll, err, ret>>

ReadWrite(i) == ReadWriteIn(i, SpecEnv)

\* errors <- getRange(...) meets "e := range errors" (unbuffered channel)
Rendezvous(i) ==
    /\ i \in 1..Len(rng)
    /\ pc # "single"
    /\ rng[i].pc = "ret"
    /\ coll.pc = "recv"
    /\ coll' = [pc |-> "assign", e |-> rng[i].res]
    /\ rng' = [rng EXCEPT ![i].pc = "sent"]
    /\ UNCHANGED <<calls, first, wcall, op, threads, resLen, head, pc, length, nthreads, blocksize,
                   remainder, offset, wg, err, ret, sink>>

\* the deferred wg.Done()
WgDone(i) ==
    /\ i \in 1..Len(rng)
    /\ rng[i].pc = "sent"
    /\ wg' = wg - 1
    /\ rng' = [rng EXCEPT ![i].pc = "done"]
    /\ UNCHANGED <<calls, first, wcall, op, threads, resLen, head, pc, length, nthreads, blocksize,
                   remainder, offset, coll, err, ret, sink>>

\* a listener that keeps the first failure and stops listening
CollectorAssignStop ==
    /\ coll.pc = "assign"
    /\ err' = coll.e
    /\ coll' = [coll EXCEPT !.pc = IF coll.e # NoErr THEN "exit" ELSE "recv"]
    /\ UNCHANGED <<calls, first, wcall, op, threads, resLen, head, pc, length, nthreads, blocksize,
                   remainder, offset, rng, wg, ret, sink>>

\* the body of the listening loop: err = e
CollectorAssign ==
    /\ coll.pc = "assign"
    /\ err' = coll.e
    /\ coll' = [coll EXCEPT !.pc = "recv"]
    /\ UNCHANGED <<calls, first, wcall, op, threads, resLen, head, pc, length, nthreads, blocksize,
                   remainder, offset, rng, wg, ret, sink>>

MainStep ==
    Probe \/ OpenSink \/ DownloadEnter \/ Dispatch \/ SpawnCollector \/ Return
    \/ SingleReturn

FetcherStep(i) == Request(i) \/ ReadWrite(i) \/ Rendezvous(i) \/ WgDone(i)

Next ==
    \/ MainStep
    \/ \E i \in 1..MaxThreads : FetcherStep(i)
    \/ CollectorAssign

Spec == Init /\ [][Next]_vars

\* the scheduler never halts the program while some goroutine can take a step
FairSpec == Spec /\ WF_vars(Next)

\* ---- download called directly: the spawning loop on its own ----
PlanLengths == (0..MaxPlanLen) \cup {1000}

InitPlan ==
    /\ op = "Save"
    /\ threads \in 0..MaxPlanThreads
    /\ length \in PlanLengths
    /\ resLen = length
    /\ head = [err |-> FALSE, status |-> 200, acceptRanges |-> TRUE,
               contentLength |-> length]
    /\ pc = "download"
    /\ nthreads = 0
    /\ blocksize = 0
    /\ remainder = 0
    /\ offset = 0
    /\ rng = <<>>
    /\ wg = 0
    /\ coll = [pc |-> "none", e |-> NoErr]
    /\ err = NoErr
    /\ ret = Unset
    /\ sink = <<>>
    /\ calls = 0
    /\ first = NoFirst
    /\ wcall = NoCall

NextPlan == DownloadEnter \/ Dispatch \/ SpawnCollector

SpecPlan == InitPlan /\ [][NextPlan]_vars

\* the (start, end) pairs handed to the goroutines, in dispatch order
Plan == [i \in 1..Len(rng) |-> <<rng[i].start, rng[i].end>>]
RangeLen(i) == rng[i].end - rng[i].start + 1

\* ---- Save called twice on one path, with every fault of network and disk ----
\* every getRange of the call got its success status and copied its whole body
Transferred ==
    \A i \in 1..Len(rng) :
        /\ rng[i].pc = "done"
        /\ rng[i].status = (IF rng[i].end < rng[i].start THEN 200 ELSE 206)
        /\ rng[i].left = 0
        /\ ~rng[i].rdErr
        /\ ~rng[i].wrErr

InitSave ==
    /\ op = "Save"
    /\ threads \in 0..MaxSaveThreads
    /\ resLen \in 0..MaxSaveLen
    /\ head = NoHead
    /\ pc = "start"
    /\ length = 0
    /\ nthreads = 0
    /\ blocksize = 0
    /\ remainder = 0
    /\ offset = 0
    /\ rng = <<>>
    /\ wg = 0
    /\ coll = [pc |-> "none", e |-> NoErr]
    /\ err = NoErr
    /\ ret = Unset
    /\ sink \in {<<>>, Stale}
    /\ calls = 0
    /\ first = NoFirst
    /\ wcall = NoCall

\* the caller calls Save again, with the same arguments, on the file the
\* first call left
SaveAgain ==
    /\ pc = "returned"
    /\ calls = 0
    /\ calls' = 1
    /\ first' = [sink |-> sink, ok |-> (ret = NoErr /\ Transferred)]
    /\ head' = NoHead
    /\ pc' = "start"
    /\ length' = 0
    /\ nthreads' = 0
    /\ blocksize' = 0
    /\ remainder' = 0
    /\ offset' = 0
    /\ rng' = <<>>
    /\ wg' = 0
    /\ coll' = [pc |-> "none", e |-> NoErr]
    /\ err' = NoErr
    /\ ret' = Unset
    /\ UNCHANGED <<op, threads, resLen, sink, wcall>>

SaveRequest(i) == RequestIn(i, FaultEnv)
SaveReadWrite(i) == ReadWriteIn(i, FaultEnv)

NextSave ==
    \/ MainStep
    \/ SaveAgain
    \/ \E i \in 1..MaxSaveThreads :
          SaveRequest(i) \/ SaveReadWrite(i) \/ Rendezvous(i) \/ WgDone(i)
    \/ CollectorAssign

SpecSave == InitSave /\ [][NextSave]_vars

\* ---- Get and Save of a resource of 4 bytes or more, with 1 and with 4
\* ---- threads, against a server and a disk that do not fail ----
RoundThreads == {1, 4}

InitRound ==
    /\ op \in {"Get", "Save"}
    /\ threads \in RoundThreads
    /\ resLen \in 4..MaxRoundLen
    /\ head = NoHead
    /\ pc = "start"
    /\ length = 0
    /\ nthreads = 0
    /\ blocksize = 0
    /\ remainder = 0
    /\ offset = 0
    /\ rng = <<>>
    /\ wg = 0
    /\ coll = [pc |-> "none", e |-> NoErr]
    /\ err = NoErr
    /\ ret = Unset
    /\ sink = IF op = "Save" THEN Stale ELSE <<>>
    /\ calls = 0
    /\ first = NoFirst
    /\ wcall = NoCall

RoundRequest(i) == RequestIn(i, CompliantEnv)
RoundReadWrite(i) == ReadWriteIn(i, CompliantEnv)

NextRound ==
    \/ MainStep
    \/ \E i \in 1..4 :
          RoundRequest(i) \/ RoundReadWrite(i) \/ Rendezvous(i) \/ WgDone(i)
    \/ CollectorAssign

SpecRound == InitRound /\ [][NextRound]_vars

\* ---- bufferWriterAt.WriteAt called on the buffers Get makes ----
Payloads == {<<>>, <<7>>, <<7, 8>>}

InitWriteAt ==
    /\ op = "Get"
    /\ threads = 1
    /\ length \in 0..MaxBufLen
    /\ resLen = length
    /\ head = [err |-> FALSE, status |-> 200, acceptRanges |-> TRUE,
               contentLength |-> length]
    /\ pc = "buffer"
    /\ nthreads = 0
    /\ blocksize = 0
    /\ remainder = 0
    /\ offset = 0
    /\ rng = <<>>
    /\ wg = 0
    /\ coll = [pc |-> "none", e |-> NoErr]
    /\ err = NoErr
    /\ ret = Unset
    /\ sink = Zeros(length)
    /\ calls = 0
    /\ first = NoFirst
    /\ wcall = NoCall

\* w.WriteAt(p, off): the reslice panics beyond the capacity of the buffer
WriteAtCall ==
    /\ pc = "buffer"
    /\ \E p \in Payloads, off \in 0..MaxOff :
        /\ wcall' = [made |-> TRUE, p |-> p, off |-> off, old |-> sink]
        /\ IF BufferPanics(sink, p, off)
           THEN /\ pc' = "panic"
                /\ UNCHANGED sink
           ELSE /\ sink' = BufferWriteAt(sink, p, off)
                /\ UNCHANGED pc
    /\ UNCHANGED <<calls, first, op, threads, resLen, head, length, nthreads,
                   blocksize, remainder, offset, rng, wg, coll, err, ret>>

NextWriteAt == WriteAtCall

SpecWriteAt == InitWriteAt /\ [][NextWriteAt]_vars

\* ---- properties ----
Fetchers == 1..Len(rng)
Failed == {i \in Fetchers : rng[i].res # NoErr}
\* download took the multi-range path, or the single-request path
MultiRange == nthreads >= 2
DownloadRan == nthreads >= 1

\* C1: when at least one dispatched range fetcher returns an error while the
\* others read their whole body and return nil, download returns a non-nil
\* error, in whatever order the fetchers report.
C1_FailureReported ==
    (/\ pc = "returned"
     /\ MultiRange
     /\ Failed # {}
     /\ \A i \in Fetchers \ Failed : ~rng[i].rdErr /\ rng[i].left = 0) => ret # NoErr

\* C2: download returns only after every fetcher it dispatched has finished
\* its request, its writes to the sink and its report.
C2_ReturnsAfterAllFetchers ==
    pc = "returned" => \A i \in Fetchers : rng[i].pc = "done"
C2_Witness ==
    /\ pc = "returned"
    /\ Len(rng) = 3
    /\ Failed # {}
    /\ Failed # Fetchers

\* C3: for fixed fetcher results the error download returns is the same in
\* every interleaving, hence the one of the interleaving in which the fetchers
\* report in dispatch order and every report is stored before the return: the
\* result of the last dispatched fetcher.
InOrderOutcome == rng[Len(rng)].res
C3_SameOutcomeInEveryOrder ==
    (pc = "returned" /\ MultiRange) => ret = InOrderOutcome

\* C4: under fair scheduling download eventually returns, with every fetcher
\* past its send on the errors channel, however many fetchers fail.
C4_DownloadReturns ==
    <>(pc = "returned" /\ \A i \in Fetchers : rng[i].pc = "done")
C4_Witness ==
    /\ pc = "returned"
    /\ MultiRange
    /\ Cardinality(Failed) >= 2

RECURSIVE SumRangeLen(_)
SumRangeLen(n) == IF n = 0 THEN 0 ELSE RangeLen(n) + SumRangeLen(n - 1)

\* C5: for 2 <= N and L >= N the dispatched ranges are pairwise disjoint,
\* contiguous in dispatch order from 0, cover exactly [0, L-1], and their
\* lengths sum to L.
C5_PlanPartitions ==
    (threads >= 2 /\ length >= threads /\ pc \in {"loop", "wait"}) =>
        /\ \A i \in Fetchers : rng[i].start <= rng[i].end
        /\ \A i \in Fetchers : rng[i].start = IF i = 1 THEN 0 ELSE rng[i - 1].end + 1
        /\ \A i, j \in Fetchers :
              i # j => rng[i].end < rng[j].start \/ rng[j].end < rng[i].start
        /\ pc = "wait" =>
              /\ rng # <<>>
              /\ rng[Len(rng)].end = length - 1
              /\ SumRangeLen(Len(rng)) = length
C5_Witness ==
    /\ pc = "wait"
    /\ threads = 4
    /\ length = 11
    /\ Len(rng) = 4

\* C6: for N >= 2 and L >= N exactly N ranges are dispatched; the first has
\* length L/N + L mod N, every later one length L/N.
C6_RangeLengths ==
    (threads >= 2 /\ length >= threads /\ pc = "wait") =>
        /\ Len(rng) = threads
        /\ RangeLen(1) = (length \div threads) + (length % threads)
        /\ \A i \in 2..Len(rng) : RangeLen(i) = length \div threads
C6_Witness ==
    /\ pc = "wait"
    /\ threads = 5
    /\ length = 12
    /\ RangeLen(1) = 4
    /\ RangeLen(5) = 2

\* C7 as stated: for L = 1000 and N = 3 the plan is [0,335], [336,668],
\* [669,999].
C7_ScenarioAsStated ==
    (threads = 3 /\ length = 1000 /\ pc = "wait") =>
        Plan = << <<0, 335>>, <<336, 668>>, <<669, 999>> >>
\* C7 amended: for L = 1000 and N = 3 the plan is [0,333], [334,666],
\* [667,999], in that order.
C7_Scenario ==
    (threads = 3 /\ length = 1000 /\ pc = "wait") =>
        Plan = << <<0, 333>>, <<334, 666>>, <<667, 999>> >>
C7_Witness ==
    /\ threads = 3
    /\ length = 1000
    /\ pc = "wait"
    /\ Len(rng) = 3

\* C8: with N >= 1 and (L < N or N = 1) download makes exactly one fetch, of
\* the sentinel range (0, -1): no goroutine is spawned, the one GET carries
\* no Range header.
C8_SingleFetch ==
    (DownloadRan /\ threads >= 1 /\ (length < threads \/ threads = 1)) =>
        /\ Plan = << <<0, -1>> >>
        /\ rng[1].hdr = NoRange
        /\ wg = 0
        /\ coll.pc = "none"
        /\ pc \in {"single", "returned"}
        /\ pc = "returned" => rng[1].pc = "done"
C8_Witness ==
    /\ pc = "returned"
    /\ threads >= 2
    /\ length >= 1
    /\ length < threads
    /\ Len(rng) = 1
    /\ rng[1].pc = "done"
    /\ ret = NoErr

\* C9: a HEAD response with status 200 that does not advertise
\* Accept-Ranges: bytes, or has a negative content length, makes Get/Save run
\* one fetcher for every N in 1..255, and no GET carries a Range header.
NoRangeSupport ==
    /\ pc # "start"
    /\ ~head.err
    /\ head.status = 200
    /\ ~head.acceptRanges \/ head.contentLength < 0
C9_NoRangeRequests ==
    (NoRangeSupport /\ threads >= 1) =>
        /\ length = 0
        /\ nthreads <= 1
        /\ Len(rng) <= 1
        /\ \A i \in Fetchers : rng[i].hdr = NoRange /\ rng[i].end < rng[i].start
        /\ wg = 0
        /\ coll.pc = "none"
C9_Witness ==
    /\ NoRangeSupport
    /\ ~head.acceptRanges
    /\ head.contentLength = resLen
    /\ threads >= 2
    /\ resLen >= threads
    /\ pc = "returned"
    /\ Len(rng) = 1
    /\ rng[1].pc = "done"
    /\ ret = NoErr

\* C10: a HEAD response with a status other than 200 makes Get and Save
\* return an error, and no GET is issued.
BadHeadStatus == pc # "start" /\ ~head.err /\ head.status # 200
C10_ProbeFailureIsFinal ==
    BadHeadStatus =>
        /\ pc = "returned"
        /\ ret = BadCode(head.status)
        /\ ret # NoErr
        /\ rng = <<>>
        /\ nthreads = 0
C10_Witness ==
    /\ BadHeadStatus
    /\ head.status = 404
    /\ threads >= 2
    /\ resLen >= threads
    /\ pc = "returned"

\* C11: with a worker count of 0 download returns an error, dispatches no
\* fetcher and issues no GET, whatever length was probed.
C11_ZeroThreadsRejected ==
    threads = 0 =>
        /\ rng = <<>>
        /\ wg = 0
        /\ coll.pc = "none"
        /\ nthreads = 0
        /\ pc \in {"start", "open", "download", "returned"}
        /\ pc = "returned" => ret # NoErr
        /\ (pc = "returned" /\ ~head.err /\ head.status = 200 /\ ret # CreateErr)
              => ret = ZeroThreadsErr
C11_Witness ==
    /\ threads = 0
    /\ pc = "returned"
    /\ length >= 1
    /\ ret = ZeroThreadsErr

\* C12: a fetcher of the sentinel range succeeds only on status 200, a
\* fetcher of a real range only on 206; on any other status it returns an
\* error and has written nothing.
C12_StatusDecides ==
    \A i \in Fetchers :
        LET r == rng[i]
            expected == IF r.end < r.start THEN 200 ELSE 206 IN
        /\ (r.pc \in {"ret", "sent", "done"} /\ r.res = NoErr) => r.status = expected
        /\ r.status \notin {0, expected} =>
              /\ r.pc \in {"ret", "sent", "done"}
              /\ r.res # NoErr
              /\ r.cur = r.start
              /\ ~r.wrErr
C12_Witness ==
    /\ pc = "returned"
    /\ Len(rng) = 2
    /\ rng[1].status = 404
    /\ rng[1].res = BadRangeCode(404, 0, 0)
    /\ rng[2].status = 206
    /\ rng[2].left = 0
    /\ rng[2].res = NoErr

\* the bytes of the resource
Resource == Payload(0, resLen)

\* C15: when two Save calls in succession, with the same arguments and an
\* unchanged resource, both return nil after transferring every body whole,
\* the file holds after the second call what it held after the first: the
\* resource, with nothing appended and no stale byte, whatever the file held
\* before.
C15_SaveTwice ==
    (calls = 1 /\ pc = "returned" /\ ret = NoErr /\ Transferred /\ first.ok) =>
        /\ sink = first.sink
        /\ sink = Resource
C15_Witness ==
    /\ calls = 1
    /\ pc = "returned"
    /\ ret = NoErr
    /\ Transferred
    /\ first.ok
    /\ MultiRange
    /\ resLen = 2
    /\ sink = <<Data(0), Data(1)>>

\* C18: when a WriteAt to the sink fails during a fetch, the fetcher returns
\* an error and the enclosing call fails.
C18_WriteFailureReported ==
    /\ \A i \in Fetchers :
          (rng[i].wrErr /\ rng[i].pc \in {"ret", "sent", "done"}) => rng[i].res # NoErr
    /\ (pc = "returned" /\ \E i \in Fetchers : rng[i].wrErr) => ret # NoErr

\* C13: when a body read fails with an error other than end-of-stream, the
\* fetcher returns an error and the enclosing download fails.
C13_ReadFailureReported ==
    /\ \A i \in Fetchers :
          (rng[i].rdErr /\ rng[i].pc \in {"ret", "sent", "done"}) => rng[i].res # NoErr
    /\ (pc = "returned" /\ \E i \in Fetchers : rng[i].rdErr) => ret # NoErr

\* C19: when download reads err for its return value, the listener holds no
\* received result that it has not stored yet.
C19_NoPendingStoreAtReturn ==
    [][(pc = "wait" /\ pc' = "returned") => coll.pc # "assign"]_vars

\* C20: once download has returned, no goroutine it started is left: every
\* fetcher is done and the listener is not waiting on the errors channel.
C20_NoGoroutineOutlivesDownload ==
    (pc = "returned" /\ MultiRange) =>
        /\ \A i \in Fetchers : rng[i].pc = "done"
        /\ coll.pc \notin {"recv", "assign"}

\* the HEAD response of a range-capable server that tells the length
RangeCapable ==
    /\ ~head.err
    /\ head.status = 200
    /\ head.acceptRanges
    /\ head.contentLength = resLen

\* C14: against a range-capable server that answers every request with
\* exactly the bytes asked for, a successful download of a resource of length
\* L >= 4 leaves the same sink content with 4 threads as with 1: the resource,
\* byte for byte, in every interleaving of the fetchers' writes.
C14_RoundTrip ==
    (pc = "returned" /\ ret = NoErr /\ RangeCapable /\ threads \in RoundThreads) =>
        sink = Resource
C14_Witness ==
    /\ pc = "returned"
    /\ ret = NoErr
    /\ RangeCapable
    /\ threads = 4
    /\ Len(rng) = 4
    /\ resLen = 5
    /\ sink = <<Data(0), Data(1), Data(2), Data(3), Data(4)>>

\* C16: in a multi-range download every write of a fetcher lands inside the
\* fetcher's own span [start, end], at the position it has reached, which
\* starts at start and advances by the bytes of each chunk; the parts of the
\* sink two fetchers have written never overlap.
Touched(k) ==
    /\ k <= Len(sink')
    /\ IF k <= Len(sink) THEN sink'[k] # sink[k] ELSE sink'[k] # 0
C16_WritesStayInOwnSpan ==
    [][MultiRange =>
        /\ \A k \in 1..Len(sink') :
              Touched(k) =>
                 \E i \in Fetchers :
                    /\ rng[i].pc = "read"
                    /\ rng[i].cur < k /\ k <= rng'[i].cur
                    /\ rng[i].start < k /\ k <= rng[i].end + 1
        /\ \A i \in Fetchers :
              /\ rng[i].pc = "req" => rng[i].cur = rng[i].start
              /\ rng'[i].cur = rng[i].cur + (rng[i].left - rng'[i].left)
                    \/ rng[i].pc = "req"
              /\ rng'[i].cur <= rng[i].end + 1
        /\ \A i, j \in Fetchers :
              i # j => rng'[i].cur <= rng[j].start \/ rng'[j].cur <= rng[i].start
    ]_vars
C16_Witness ==
    /\ pc = "wait"
    /\ Len(rng) = 3
    /\ \A i \in Fetchers : rng[i].pc = "read" /\ rng[i].cur = rng[i].end + 1
    /\ sink = <<Data(0), Data(1), Data(2)>>

\* C17: after bufferWriterAt.WriteAt(p, off) with off >= 0 the length of the
\* buffer is off + len(p) if that exceeds the old length and the old length
\* otherwise, bytes [off, off+len(p)) equal p, and every byte inside the old
\* length and outside that span is unchanged.
C17_WriteAtEffect ==
    wcall.made =>
        LET p == wcall.p
            off == wcall.off
            old == wcall.old IN
        /\ Len(sink) = IF off + Len(p) > Len(old) THEN off + Len(p) ELSE Len(old)
        /\ \A k \in 1..Len(p) : sink[off + k] = p[k]
        /\ \A k \in 1..Len(old) : (k <= off \/ k > off + Len(p)) => sink[k] = old[k]

====
